---- MODULE Spec2Model ----
(***************************************************************************)
(* Sequence compiler and simulation driver of the Bloch simulator          *)
(* (virtualscanner/server/simulation/bloch/pulseq_blochsim_methods.py).    *)
(*                                                                         *)
(* Times are integers in units of one raster step; gradient amplitudes are *)
(* integer multiples of GAMMA_BAR so that the division by GAMMA_BAR that   *)
(* the code performs is exact.  Python index i is TLA+ index i+1.          *)
(***************************************************************************)
EXTENDS Integers, Sequences, FiniteSets, TLC

\* Longest event table / instruction stream explored.
MaxBlocks == 2
\* Number of location tasks that share one instruction stream.
NumLocs == 2

GAMMA_BAR == 42577500

Locs == 1..NumLocs

(***************************************************************************)
(* Input data: gradient sub-records and blocks returned by seq.get_block.  *)
(***************************************************************************)
NoGrad ==
  [type |-> "absent", rise_time |-> 0, flat_time |-> 0, fall_time |-> 0,
   amplitude |-> 0, area |-> 0, t |-> <<>>, waveform |-> <<>>]

TrapGrad ==
  [type |-> "trap", rise_time |-> 1, flat_time |-> 1, fall_time |-> 1,
   amplitude |-> 2 * GAMMA_BAR, area |-> 4 * GAMMA_BAR,
   t |-> <<>>, waveform |-> <<>>]

ArbGrad ==
  [type |-> "grad", rise_time |-> 0, flat_time |-> 0, fall_time |-> 0,
   amplitude |-> 0, area |-> 0,
   t |-> <<0, 1>>, waveform |-> <<2 * GAMMA_BAR, 4 * GAMMA_BAR>>]

GradRecords == {NoGrad, TrapGrad, ArbGrad}

\* Every combination of gradient sub-records on the three axes.
AllGradConfigs == [gx : GradRecords, gy : GradRecords, gz : GradRecords]

\* The gradient configurations used in event tables: no gradient, a single
\* trapezoid or arbitrary gradient on one axis, and mixed-kind cases.
GradConfigs ==
  { [gx |-> NoGrad,   gy |-> NoGrad,  gz |-> NoGrad],
    [gx |-> TrapGrad, gy |-> NoGrad,  gz |-> NoGrad],
    [gx |-> NoGrad,   gy |-> ArbGrad, gz |-> NoGrad],
    [gx |-> TrapGrad, gy |-> NoGrad,  gz |-> ArbGrad],
    [gx |-> ArbGrad,  gy |-> TrapGrad, gz |-> NoGrad] }

\* A block: ids of its delay, rf and adc events (0 = no such event) and its
\* gradient sub-records.
MkBlock(d, r, a, g) ==
  [delay |-> d, rf |-> r, adc |-> a, gx |-> g.gx, gy |-> g.gy, gz |-> g.gz]

BlockSet ==
  { MkBlock(d, r, a, g) : d \in {0, 1}, r \in {0, 1}, a \in {0, 1}, g \in GradConfigs }

\* hasattr(blk, g_name)
HasGrad(g) == g.type # "absent"

\* Row of seq.block_events for a block: [delay, rf, gx, gy, gz, adc].
EventRow(blk) ==
  << blk.delay, blk.rf,
     IF HasGrad(blk.gx) THEN 1 ELSE 0,
     IF HasGrad(blk.gy) THEN 1 ELSE 0,
     IF HasGrad(blk.gz) THEN 1 ELSE 0,
     blk.adc >>

\* Sub-records of a block and the system raster times.
DelayRec == [delay |-> 1]
RfRec == [t |-> <<1, 2>>, signal |-> <<GAMMA_BAR, GAMMA_BAR>>,
          freq_offset |-> 0, phase_offset |-> 0]
AdcRec == [dwell |-> 1, delay |-> 0, num_samples |-> 2, phase_offset |-> 0]
GradRasterTime == 1
RfRasterTime == 1

(***************************************************************************)
(* numpy helpers, on integer data.                                         *)
(***************************************************************************)
Axes == <<"gx", "gy", "gz">>

RECURSIVE SeqMax(_)
SeqMax(s) ==
  IF Len(s) = 1 THEN s[1]
  ELSE LET m == SeqMax(Tail(s)) IN IF s[1] >= m THEN s[1] ELSE m

\* np.arange(a, b, s) for s > 0
Arange(a, b, s) ==
  LET n == IF b > a THEN (b - a + s - 1) \div s ELSE 0
  IN  [i \in 1..n |-> a + (i - 1) * s]

\* np.interp at one point x over sample points xp (increasing) / values fp
InterpAt(x, xp, fp) ==
  IF x <= xp[1] THEN fp[1]
  ELSE IF x >= xp[Len(xp)] THEN fp[Len(fp)]
  ELSE LET i == CHOOSE j \in 1..(Len(xp) - 1) : xp[j] <= x /\ x < xp[j + 1]
       IN  fp[i] + ((x - xp[i]) * (fp[i + 1] - fp[i])) \div (xp[i + 1] - xp[i])

Interp(x, xp, fp) == [i \in 1..Len(x) |-> InterpAt(x[i], xp, fp)]

\* np.trapz(y, x)
RECURSIVE Trapz(_, _)
Trapz(y, x) ==
  IF Len(x) < 2 THEN 0
  ELSE ((x[2] - x[1]) * (y[1] + y[2])) \div 2 + Trapz(Tail(y), Tail(x))

(***************************************************************************)
(* Waveform resampler.                                                     *)
(***************************************************************************)
find_precessing_time(blk, dt) ==
  LET present == SelectSeq(Axes, LAMBDA a : HasGrad(blk[a]))
      tg(a) == IF blk[a].type = "trap"
               THEN blk[a].rise_time + blk[a].flat_time + blk[a].fall_time
               ELSE Len(blk[a].t) * dt
      grad_times == [i \in 1..Len(present) |-> tg(present[i])]
  IN  IF Len(grad_times) # 0 THEN SeqMax(grad_times) ELSE 0

combine_gradient_areas(blk) ==
  [i \in 1..3 |->
     LET g == blk[Axes[i]]
     IN  IF HasGrad(g)
         THEN (IF g.type = "trap" THEN g.area ELSE Trapz(g.waveform, g.t)) \div GAMMA_BAR
         ELSE 0]

\* grad_timing and duration (lines 306-313)
GradTiming(blk, dt, timing, delay) ==
  IF dt # 0
  THEN LET duration == find_precessing_time(blk, dt)
       IN  [grid |-> <<0>> \o Arange(delay, duration + dt, dt), duration |-> duration]
  ELSE IF Len(timing) # 0
  THEN [grid |-> timing, duration |-> timing[Len(timing)] - timing[1]]
  ELSE [grid |-> <<>>, duration |-> 0]

\* One row of the gradient array (lines 320-329)
GradRow(g, grid) ==
  IF HasGrad(g)
  THEN IF g.type = "trap"
       THEN Interp(grid,
                   <<0, g.rise_time, g.rise_time + g.flat_time,
                     g.rise_time + g.flat_time + g.fall_time>>,
                   <<0, g.amplitude \div GAMMA_BAR, g.amplitude \div GAMMA_BAR, 0>>)
       ELSE Interp(grid, g.t, [i \in 1..Len(g.waveform) |-> g.waveform[i] \div GAMMA_BAR])
  ELSE [i \in 1..Len(grid) |-> 0]

\* A plausible slip: g is kept from the first axis that has a gradient.
GradTypeFirst(blk) ==
  IF HasGrad(blk.gx) THEN blk.gx.type
  ELSE IF HasGrad(blk.gy) THEN blk.gy.type
  ELSE IF HasGrad(blk.gz) THEN blk.gz.type
  ELSE "None"

\* g after the loop over gx, gy, gz, and grad_type (lines 316-333): each axis
\* that has a gradient overwrites g.
RECURSIVE GradTypeLoop(_, _, _)
GradTypeLoop(blk, i, g) ==
  IF i > Len(Axes) THEN g
  ELSE GradTypeLoop(blk, i + 1,
                    IF HasGrad(blk[Axes[i]]) THEN blk[Axes[i]].type ELSE g)

GradType(blk) == GradTypeLoop(blk, 1, "None")

\* combine_gradients: always returns (grad, grad_timing, duration, grad_type);
\* no branch of the code raises on the dt / timing combination.
combine_gradients(blk, dt, timing, delay) ==
  LET gt == GradTiming(blk, dt, timing, delay)
  IN  [status |-> "returned",
       grad |-> [i \in 1..3 |-> GradRow(blk[Axes[i]], gt.grid)],
       grad_timing |-> gt.grid,
       duration |-> gt.duration,
       grad_type |-> GradType(blk)]

(***************************************************************************)
(* State.                                                                  *)
(***************************************************************************)
VARIABLES
  events,      \* the event table: sequence of blocks, in key order
  key,         \* store_pulseq_commands: number of keys already visited
  commands,    \* store_pulseq_commands: local 'commands'
  seq_params,  \* store_pulseq_commands: local 'seq_params'
  store_pc,    \* "loop" while compiling, "returned" once seq_info exists
  seq_info,    \* the instruction stream handed to the interpreter
  isc,         \* spin-state objects, by object identity
  task,        \* one record per call of the interpreter / driver
  rs           \* one call of combine_gradients: inputs and outcome

vars == <<events, key, commands, seq_params, store_pc, seq_info, isc, task, rs>>

storeVars == <<events, key, commands, seq_params, store_pc, seq_info>>

(***************************************************************************)
(* Sequence compiler: store_pulseq_commands.                               *)
(***************************************************************************)
\* A plausible slip: the ADC case tested before the rf case.
ClassifyAdcFirst(event_row) ==
  IF event_row[1] # 0 THEN "d"
  ELSE IF event_row[6] # 0 THEN "r"
  ELSE IF event_row[2] # 0 THEN "p"
  ELSE IF event_row[3] # 0 \/ event_row[4] # 0 \/ event_row[5] # 0 THEN "g"
  ELSE ""

\* The if / elif cascade of lines 53, 58, 74, 85; "" when no branch is taken.
Classify(event_row) ==
  IF event_row[1] # 0 THEN "d"
  ELSE IF event_row[2] # 0 THEN "p"
  ELSE IF event_row[6] # 0 THEN "r"
  ELSE IF event_row[3] # 0 \/ event_row[4] # 0 \/ event_row[5] # 0 THEN "g"
  ELSE ""

\* b1 of line 68; the rf sub-record has freq_offset = phase_offset = 0, so the
\* complex exponential is 1 and b1 is signal / GAMMA_BAR.
B1(rf) == [i \in 1..Len(rf.signal) |-> rf.signal[i] \div GAMMA_BAR]

\* The parameter list appended for a block classified as 'tag'.
Payload(tag, blk) ==
  IF tag = "d" THEN << DelayRec.delay >>
  ELSE IF tag = "p" THEN
    LET rf_time == [i \in 1..Len(RfRec.t) |-> RfRec.t[i] - RfRasterTime]
        cg == combine_gradients(blk, 0, rf_time, 0)
    IN  << B1(RfRec), cg.grad, RfRasterTime >>
  ELSE IF tag = "r" THEN
    LET cg == combine_gradients(blk, AdcRec.dwell, <<>>, AdcRec.delay)
    IN  << AdcRec.dwell, AdcRec.num_samples, AdcRec.delay, cg.grad,
           cg.grad_timing, cg.grad_type, AdcRec.phase_offset >>
  ELSE << combine_gradient_areas(blk), find_precessing_time(blk, GradRasterTime) >>

\* One iteration of the loop over events.keys() (lines 48-90).
StoreBlock ==
  /\ store_pc = "loop"
  /\ key < Len(events)
  /\ LET this_blk == events[key + 1]
         tag == Classify(EventRow(this_blk))
     IN  IF tag # ""
         THEN /\ commands' = Append(commands, tag)
              /\ seq_params' = Append(seq_params, Payload(tag, this_blk))
         ELSE UNCHANGED <<commands, seq_params>>
  /\ key' = key + 1
  /\ UNCHANGED <<events, store_pc, seq_info, isc, task, rs>>

\* Lines 92-93.
StoreReturn ==
  /\ store_pc = "loop"
  /\ key = Len(events)
  /\ seq_info' = [commands |-> commands, params |-> seq_params,
                  grad_raster_time |-> GradRasterTime]
  /\ store_pc' = "returned"
  /\ UNCHANGED <<events, key, commands, seq_params, isc, task, rs>>

(***************************************************************************)
(* Spin-state objects (spingroup_ps, spingroup_ps_t2star): a spin state is *)
(* represented by its variant, its location and the capability calls made  *)
(* on it so far; magnetization and signal are functions of that history.   *)
(***************************************************************************)
NoSpinGroup == [variant |-> "unbound", loc |-> 0, calls |-> <<>>]

SpinGroup(variant, loc) == [variant |-> variant, loc |-> loc, calls |-> <<>>]

Call(s, name, args) ==
  [s EXCEPT !.calls = Append(@, [name |-> name, args |-> args])]

get_m(s) == <<0, Len(s.calls), 1>>

IsReadout(call) == call.name \in {"readout", "readout_trapz"}

Signal(s) == SelectSeq(s.calls, IsReadout)

(***************************************************************************)
(* Instruction interpreter: apply_pulseq_commands.                         *)
(***************************************************************************)
\* A plausible slip: the 'g' branch calls delay.
ApplyCommandGradAsDelay(s, cstr, cpars) ==
  IF cstr = "d" THEN Call(s, "delay", <<cpars[1]>>)
  ELSE IF cstr = "p" THEN Call(s, "apply_rf", <<cpars[1], cpars[2], cpars[3]>>)
  ELSE IF cstr = "r" THEN
    IF cpars[6] = "trap"
    THEN Call(s, "readout_trapz", <<cpars[1], cpars[2], cpars[3], cpars[4], cpars[5], cpars[7]>>)
    ELSE Call(s, "readout", <<cpars[1], cpars[2], cpars[3], cpars[4], cpars[5], cpars[7]>>)
  ELSE IF cstr = "g" THEN Call(s, "delay", <<cpars[2]>>)
  ELSE s

\* The dispatch of lines 119-129; a tag that matches no branch does nothing.
ApplyCommand(s, cstr, cpars) ==
  IF cstr = "d" THEN Call(s, "delay", <<cpars[1]>>)
  ELSE IF cstr = "p" THEN Call(s, "apply_rf", <<cpars[1], cpars[2], cpars[3]>>)
  ELSE IF cstr = "r" THEN
    IF cpars[6] = "trap"
    THEN Call(s, "readout_trapz", <<cpars[1], cpars[2], cpars[3], cpars[4], cpars[5], cpars[7]>>)
    ELSE Call(s, "readout", <<cpars[1], cpars[2], cpars[3], cpars[4], cpars[5], cpars[7]>>)
  ELSE IF cstr = "g" THEN Call(s, "fpwg", <<cpars[1], cpars[2]>>)
  ELSE s

\* A plausible slip: the magnetization is captured whether or not store_m is set.
CaptureAlways(t, s) ==
  [t EXCEPT !.m_store = [@ EXCEPT ![t.c + 1] = get_m(s)],
            !.mreads = @ + 1]

\* Lines 130-132, after instruction number t.c (0-based) ran on spin state s.
Capture(t, s) ==
  IF t.store_m
  THEN [t EXCEPT !.m_store = [@ EXCEPT ![t.c + 1] = get_m(s)],
                 !.mreads = @ + 1]
  ELSE t

\* np.zeros((3, n)), column by column
Zeros(n) == [i \in 1..n |-> <<0, 0, 0>>]

NoResult == [kind |-> "none", value |-> <<>>]

IdleTask ==
  [pc |-> "idle", caller |-> "none", sg_type |-> "", obj |-> 0, c |-> 0,
   store_m |-> FALSE, m_store |-> <<>>, mreads |-> 0, result |-> NoResult]

\* Entry of apply_pulseq_commands (lines 112-114).
EnterApply(caller, sg_type, obj, store_m) ==
  [pc |-> "run", caller |-> caller, sg_type |-> sg_type, obj |-> obj, c |-> 0,
   store_m |-> store_m, m_store |-> Zeros(Len(seq_info.commands)), mreads |-> 0, result |-> NoResult]

\* A direct call apply_pulseq_commands(isc, seq_info, store_m) on a spin
\* group the caller has built.
ApplyCall(l, store_m) ==
  /\ store_pc = "returned"
  /\ task[l].pc = "idle"
  /\ isc' = [isc EXCEPT ![l] = SpinGroup("SpinGroup", l)]
  /\ task' = [task EXCEPT ![l] = EnterApply("direct", "Default", l, store_m)]
  /\ UNCHANGED <<storeVars, rs>>

\* One iteration of the loop of lines 116-132.
ApplyStep(l) ==
  /\ task[l].pc = "run"
  /\ task[l].c < Len(seq_info.commands)
  /\ LET t == task[l]
         cstr == seq_info.commands[t.c + 1]
         cpars == seq_info.params[t.c + 1]
         s == ApplyCommand(isc[t.obj], cstr, cpars)
     IN  /\ isc' = [isc EXCEPT ![t.obj] = s]
         /\ task' = [task EXCEPT ![l] = [Capture(t, s) EXCEPT !.c = t.c + 1]]
  /\ UNCHANGED <<storeVars, rs>>

\* Line 134, for a direct call.
ApplyReturn(l) ==
  /\ task[l].pc = "run"
  /\ task[l].caller = "direct"
  /\ task[l].c = Len(seq_info.commands)
  /\ task' = [task EXCEPT ![l].pc = "done",
                          ![l].result = [kind |-> "m_store", value |-> task[l].m_store]]
  /\ UNCHANGED <<storeVars, isc, rs>>

(***************************************************************************)
(* Per-location driver: sim_single_spingroup.                              *)
(***************************************************************************)
SupportedTypes == {"Default", "Solver", "Diffusion", "T2Star"}

SgTypes == SupportedTypes \cup {"Bogus"}

OutputTypes == {"signal", "spingroup"}

\* A plausible slip: a trailing else that falls back to the default class.
MakeSpinGroupDefaulting(sg_type, loc) ==
  IF sg_type = "Default" THEN SpinGroup("SpinGroup", loc)
  ELSE IF sg_type = "Solver" THEN SpinGroup("NumSolverSpinGroup", loc)
  ELSE IF sg_type = "Diffusion" THEN SpinGroup("SpinGroupDiffusion", loc)
  ELSE IF sg_type = "T2Star" THEN SpinGroup("SpinGroupT2star", loc)
  ELSE SpinGroup("SpinGroup", loc)

\* The local isc after lines 224-233; with no matching branch the name isc
\* stays unbound.
MakeSpinGroup(sg_type, loc) ==
  IF sg_type = "Default" THEN SpinGroup("SpinGroup", loc)
  ELSE IF sg_type = "Solver" THEN SpinGroup("NumSolverSpinGroup", loc)
  ELSE IF sg_type = "Diffusion" THEN SpinGroup("SpinGroupDiffusion", loc)
  ELSE IF sg_type = "T2Star" THEN SpinGroup("SpinGroupT2star", loc)
  ELSE NoSpinGroup

\* A plausible slip: one module-level spin group reused by every call.
NewObjShared(l) == CHOOSE o \in Locs : \A p \in Locs : o <= p

\* Identity of the object a constructor call of task l returns: a new object
\* for each call.
NewObj(l) == l

\* Lines 223-235 up to the entry of apply_pulseq_commands.  Reading the
\* unbound local isc at line 235 raises UnboundLocalError.
SimStart(l, sg_type) ==
  /\ store_pc = "returned"
  /\ task[l].pc = "idle"
  /\ LET made == MakeSpinGroup(sg_type, l)
         o == NewObj(l)
     IN  IF made.variant = "unbound"
         THEN /\ task' = [task EXCEPT ![l].pc = "error", ![l].caller = "sim",
                                      ![l].sg_type = sg_type]
              /\ UNCHANGED isc
         ELSE /\ isc' = [isc EXCEPT ![o] = made]
              /\ task' = [task EXCEPT ![l] = EnterApply("sim", sg_type, o, FALSE)]
  /\ UNCHANGED <<storeVars, rs>>

\* Return of apply_pulseq_commands (line 134) and lines 237-240.
SimReturn(l, output_type) ==
  /\ task[l].pc = "run"
  /\ task[l].caller = "sim"
  /\ task[l].c = Len(seq_info.commands)
  /\ task' = [task EXCEPT
       ![l].pc = "done",
       ![l].result = IF output_type = "signal"
                     THEN [kind |-> "signal", value |-> Signal(isc[task[l].obj])]
                     ELSE [kind |-> "spingroup", value |-> isc[task[l].obj]]]
  /\ UNCHANGED <<storeVars, isc, rs>>

(***************************************************************************)
(* One call of combine_gradients.                                          *)
(***************************************************************************)
NoOut ==
  [status |-> "pending", grad |-> <<>>, grad_timing |-> <<>>, duration |-> 0,
   grad_type |-> "None"]

IdleRs ==
  [pc |-> "idle", blk |-> MkBlock(0, 0, 0, [gx |-> NoGrad, gy |-> NoGrad, gz |-> NoGrad]),
   dt |-> 0, timing |-> <<>>, delay |-> 0, out |-> NoOut]

CombineGradientsCall ==
  /\ rs.pc = "called"
  /\ LET out == combine_gradients(rs.blk, rs.dt, rs.timing, rs.delay)
     IN  rs' = [rs EXCEPT !.out = out,
                          !.pc = IF out.status = "returned" THEN "returned" ELSE "error"]
  /\ UNCHANGED <<storeVars, isc, task>>

(***************************************************************************)
(* Specifications.                                                         *)
(***************************************************************************)
SeqsUpTo(S, n) == UNION { [1..k -> S] : k \in 0..n }

NoSeqInfo == [commands |-> <<>>, params |-> <<>>, grad_raster_time |-> 0]

\* Compile an event table, then replay the stream on one spin group.
Init ==
  /\ events \in SeqsUpTo(BlockSet, MaxBlocks)
  /\ key = 0
  /\ commands = <<>>
  /\ seq_params = <<>>
  /\ store_pc = "loop"
  /\ seq_info = NoSeqInfo
  /\ isc = [o \in Locs |-> NoSpinGroup]
  /\ task = [l \in Locs |-> IdleTask]
  /\ rs = IdleRs

Next ==
  \/ StoreBlock
  \/ StoreReturn
  \/ \E store_m \in BOOLEAN : ApplyCall(1, store_m)
  \/ ApplyStep(1)
  \/ ApplyReturn(1)

Spec == Init /\ [][Next]_vars

\* Instructions of the streams shared by the location tasks: what the
\* compiler emits for a delay block and for an ADC block, and an unrecognized
\* tag.
NoGrads == [gx |-> NoGrad, gy |-> NoGrad, gz |-> NoGrad]

SimBlocks ==
  { MkBlock(1, 0, 0, NoGrads),
    MkBlock(0, 0, 1, [gx |-> TrapGrad, gy |-> NoGrad, gz |-> NoGrad]) }

InstrOf(blk) ==
  LET tag == Classify(EventRow(blk))
  IN  [tag |-> tag, pars |-> Payload(tag, blk)]

SimInstrs == { InstrOf(b) : b \in SimBlocks } \cup { [tag |-> "x", pars |-> <<>>] }

StreamOf(s) ==
  [commands |-> [i \in 1..Len(s) |-> s[i].tag],
   params |-> [i \in 1..Len(s) |-> s[i].pars],
   grad_raster_time |-> GradRasterTime]

\* Location tasks running sim_single_spingroup on one shared stream, their
\* interpreter steps interleaved.
InitSim ==
  /\ events = <<>>
  /\ key = 0
  /\ commands = <<>>
  /\ seq_params = <<>>
  /\ store_pc = "returned"
  /\ seq_info \in { StreamOf(s) : s \in SeqsUpTo(SimInstrs, MaxBlocks) }
  /\ isc = [o \in Locs |-> NoSpinGroup]
  /\ task = [l \in Locs |-> IdleTask]
  /\ rs = IdleRs

NextSim ==
  \E l \in Locs :
    \/ \E sg_type \in SgTypes : SimStart(l, sg_type)
    \/ ApplyStep(l)
    \/ \E output_type \in OutputTypes : SimReturn(l, output_type)

SpecSim == InitSim /\ [][NextSim]_vars

\* Calls of combine_gradients with every combination of dt and timing.
InitResample ==
  /\ events = <<>>
  /\ key = 0
  /\ commands = <<>>
  /\ seq_params = <<>>
  /\ store_pc = "idle"
  /\ seq_info = NoSeqInfo
  /\ isc = [o \in Locs |-> NoSpinGroup]
  /\ task = [l \in Locs |-> IdleTask]
  /\ rs \in { [pc |-> "called", blk |-> MkBlock(0, 0, 0, g), dt |-> dt,
               timing |-> timing, delay |-> delay, out |-> NoOut] :
              g \in AllGradConfigs, dt \in {0, 1, 2},
              timing \in {<<>>, <<0, 1>>, <<0, 1, 2>>}, delay \in {0, 1} }

NextResample == CombineGradientsCall

SpecResample == InitResample /\ [][NextResample]_vars

(***************************************************************************)
(* Vocabulary of the properties.                                           *)
(***************************************************************************)
KnownTags == {"d", "p", "r", "g"}

\* Event categories a block activates.
Active(blk) ==
  (IF blk.delay # 0 THEN {"d"} ELSE {}) \cup
  (IF blk.rf # 0 THEN {"p"} ELSE {}) \cup
  (IF blk.adc # 0 THEN {"r"} ELSE {}) \cup
  (IF HasGrad(blk.gx) \/ HasGrad(blk.gy) \/ HasGrad(blk.gz) THEN {"g"} ELSE {})

Priority == <<"d", "p", "r", "g">>

\* First category of the priority order that the block activates; "" when
\* it activates none.
PriorityKind(blk) ==
  IF Active(blk) = {} THEN ""
  ELSE Priority[CHOOSE i \in 1..4 :
                  /\ Priority[i] \in Active(blk)
                  /\ \A j \in 1..(i - 1) : Priority[j] \notin Active(blk)]

Malformed(blk) == Cardinality(Active(blk)) # 1

\* Position in the stream of the instruction of block k, when every block
\* before it that activates a category has one instruction.
EmitIndex(k) == Cardinality({ j \in 1..k : Active(events[j]) # {} })

\* Type of the last axis, in the order gx, gy, gz, that has a gradient.
LastActiveKind(blk) ==
  LET act == { i \in 1..3 : HasGrad(blk[Axes[i]]) }
  IN  IF act = {} THEN "None"
      ELSE blk[Axes[CHOOSE i \in act : \A j \in act : j <= i]].type

TagOfCall(name) ==
  IF name = "delay" THEN "d"
  ELSE IF name = "apply_rf" THEN "p"
  ELSE IF name \in {"readout", "readout_trapz"} THEN "r"
  ELSE IF name = "fpwg" THEN "g"
  ELSE "?"

\* The spin state after the first n instructions of a stream have been
\* applied to s with nothing else running.
RECURSIVE Replay(_, _, _)
Replay(s, info, n) ==
  IF n = 0 THEN s
  ELSE ApplyCommand(Replay(s, info, n - 1), info.commands[n], info.params[n])

Started(l) == task[l].pc \in {"run", "done"}

(***************************************************************************)
(* Properties.                                                             *)
(***************************************************************************)
\* C1: once store_pulseq_commands has returned, 'commands' and 'params' have
\* as many entries as the event table has blocks.
C1_StreamLength ==
  store_pc = "returned" =>
    /\ Len(seq_info.commands) = Len(events)
    /\ Len(seq_info.params) = Len(events)

\* C2: every loop iteration on a block that sets at least one flag appends
\* exactly the instruction kind that comes first in the priority
\* delay, RF, ADC, gradient, with one parameter entry.
C2_FirstMatch ==
  [][ (key' = key + 1 /\ Active(events[key + 1]) # {}) =>
        /\ commands' = Append(commands, PriorityKind(events[key + 1]))
        /\ Len(seq_params') = Len(seq_params) + 1 ]_vars

C2_Witness ==
  /\ key >= 1
  /\ Active(events[1]) = {"p", "r", "g"}
  /\ commands = <<"p">>

\* C3: store_pulseq_commands never returns a stream for an event table that
\* contains a malformed block (no category, or more than one category).
C3_MalformedRejected ==
  (\E k \in 1..Len(events) : Malformed(events[k])) => store_pc # "returned"

\* C4: a call of combine_gradients with both dt and timing, or with neither,
\* ends in an error and returns no gradient array.
C4_InconsistentRejected ==
  ( /\ rs.pc \in {"returned", "error"}
    /\ \/ rs.dt # 0 /\ Len(rs.timing) # 0
       \/ rs.dt = 0 /\ Len(rs.timing) = 0 )
  => rs.pc = "error" /\ rs.out.status # "returned"

\* C5: the interpreter never gets past an instruction whose tag is not one of
\* 'd', 'p', 'r', 'g': no task that is running or has returned has such an
\* instruction among those it has already passed.
C5_UnknownTagFatal ==
  \A l \in Locs :
    Started(l) =>
      \A i \in 1..task[l].c : seq_info.commands[i] \in KnownTags

\* C6: a call of sim_single_spingroup with an unsupported variant name ends
\* in an error with no instruction dispatched, no spin state built and no
\* result.
C6_UnsupportedVariantRejected ==
  \A l \in Locs :
    (task[l].pc # "idle" /\ task[l].sg_type \notin SupportedTypes) =>
      /\ task[l].pc = "error"
      /\ task[l].c = 0
      /\ task[l].result.kind = "none"
      /\ isc[l] = NoSpinGroup

C6_Witness ==
  \E l \in Locs :
    /\ task[l].sg_type = "Bogus"
    /\ task[l].pc = "error"
    /\ Len(seq_info.commands) > 0

\* C7: on a compiled stream, after c instructions the spin state has received
\* exactly c capability calls, the i-th of the kind that the i-th tag names.
C7_OneCallPerInstruction ==
  Started(1) =>
    LET calls == isc[task[1].obj].calls
    IN  /\ Len(calls) = task[1].c
        /\ \A i \in 1..task[1].c : TagOfCall(calls[i].name) = seq_info.commands[i]
        /\ task[1].pc = "done" => task[1].c = Len(seq_info.commands)

C7_Witness ==
  /\ task[1].pc = "done"
  /\ Len(seq_info.commands) >= 2
  /\ seq_info.commands[1] = "g"
  /\ seq_info.commands[2] = "d"

\* C8: with store_m the magnetization has been read once per executed
\* instruction, column i of the trace holds the magnetization after
\* instruction i and the trace has one column per instruction; without
\* store_m the magnetization is never read and the trace is all zero.
C8_Trace ==
  Started(1) =>
    LET t == task[1]
        start == SpinGroup("SpinGroup", 1)
    IN  /\ Len(t.m_store) = Len(seq_info.commands)
        /\ t.store_m =>
             /\ t.mreads = t.c
             /\ \A i \in 1..Len(t.m_store) :
                  t.m_store[i] = IF i <= t.c THEN get_m(Replay(start, seq_info, i))
                                 ELSE <<0, 0, 0>>
        /\ ~t.store_m =>
             /\ t.mreads = 0
             /\ t.m_store = Zeros(Len(seq_info.commands))
        /\ t.pc = "done" => t.result = [kind |-> "m_store", value |-> t.m_store]

C8_Witness ==
  /\ task[1].pc = "done"
  /\ task[1].store_m
  /\ task[1].mreads = 2
  /\ Len(task[1].m_store) = 2
  /\ task[1].m_store[1] # task[1].m_store[2]

\* C9: for every block the compiler loop visits, combine_gradients reports
\* the type of the last axis (gx, gy, gz) that has a gradient, or None; that
\* type is the one stored for an ADC block, and the readout of an ADC block is
\* dispatched to readout_trapz exactly when that axis is a trapezoid.
C9_LastAxisKind ==
  /\ (store_pc = "loop" /\ key >= 1) =>
       combine_gradients(events[key], AdcRec.dwell, <<>>, AdcRec.delay).grad_type
         = LastActiveKind(events[key])
  /\ \A k \in 1..Len(events) :
       LET blk == events[k]
           at == EmitIndex(k)
       IN  PriorityKind(blk) = "r" =>
             /\ k <= key => seq_params[at][6] = LastActiveKind(blk)
             /\ (Started(1) /\ task[1].c >= at) =>
                  isc[task[1].obj].calls[at].name =
                    IF LastActiveKind(blk) = "trap" THEN "readout_trapz" ELSE "readout"

C9_Witness ==
  /\ task[1].pc = "done"
  /\ Len(events) = 2
  /\ Active(events[1]) = {"r", "g"}
  /\ events[1].gx.type = "trap" /\ events[1].gz.type = "grad"
  /\ isc[task[1].obj].calls[1].name = "readout"
  /\ Active(events[2]) = {"r", "g"}
  /\ events[2].gx.type = "grad" /\ events[2].gy.type = "trap"
  /\ isc[task[1].obj].calls[2].name = "readout_trapz"

\* C10: no step changes the shared stream, distinct tasks work on distinct
\* spin-state objects, and after every step each task's spin state, and its
\* result once returned, are those of running its location alone.
C10_LocationIndependence ==
  [][ /\ seq_info' = seq_info
      /\ \A l \in Locs :
           (task[l].pc \in {"run", "done"})' =>
             LET t == task'[l]
                 solo == Replay(MakeSpinGroup(t.sg_type, l), seq_info, t.c)
             IN  /\ \A l2 \in Locs \ {l} :
                      (task[l2].pc \in {"run", "done"})' => task'[l2].obj # t.obj
                 /\ isc'[t.obj] = solo
                 /\ t.result.kind = "signal" => t.result.value = Signal(solo)
                 /\ t.result.kind = "spingroup" => t.result.value = solo ]_vars

C10_Witness ==
  /\ Len(seq_info.commands) = 2
  /\ task[1].pc = "run" /\ task[1].c = 1
  /\ task[2].pc = "done" /\ task[2].result.kind = "signal"
  /\ Len(isc[task[1].obj].calls) = 1
  /\ Len(isc[task[2].obj].calls) = 2

====
